---- MODULE Spec2Model ----
(***************************************************************************)
(* Model of notebooks/02.01-Calibrating-bias-images.ipynb: the cells that  *)
(* set up the output folder, collect the raw files, reduce one sample bias *)
(* image, reduce every bias image of the folder and list the result.       *)
(*                                                                         *)
(* Images.  A CCD image is a 2-D array data[row, column].  The images of   *)
(* the model are the arrays of the form data[r, c] = rows(r) + cols(c);    *)
(* each of the two vectors is stored run-length encoded, as a sequence of  *)
(* runs [n |-> count, v |-> value], so that arrays of the real size (2080  *)
(* columns, 4128 rows) and the real column indices 2048 and 2055 of the    *)
(* notebook fit in a state.  Pixel values are counted in half ADU (a raw   *)
(* count of k ADU is the value 2 * k), which keeps the median of an even   *)
(* number of integer counts exact.  The field nan says that every pixel of *)
(* the array is NaN (what numpy yields after subtracting the median of an  *)
(* empty overscan region).                                                 *)
(***************************************************************************)
EXTENDS Integers, Sequences, FiniteSets, TLC

Min(a, b) == IF a <= b THEN a ELSE b

Max(a, b) == IF a >= b THEN a ELSE b

(***************************************************************************)
(* Run-length encoded vectors (0-based element indices, as in Python).     *)
(***************************************************************************)
RECURSIVE RunLen(_)
RunLen(runs) == IF runs = <<>> THEN 0 ELSE Head(runs).n + RunLen(Tail(runs))

RECURSIVE RunAt(_, _)
RunAt(runs, i) ==
    IF i < Head(runs).n THEN Head(runs).v ELSE RunAt(Tail(runs), i - Head(runs).n)

\* index of the first element of run k (k = Len(runs) + 1: the length)
RunStart(runs, k) == RunLen(SubSeq(runs, 1, k - 1))

RunBounds(runs) == {RunStart(runs, k) : k \in 1..(Len(runs) + 1)}

\* merge neighbouring runs of one value: the canonical encoding of a vector
RECURSIVE Normalise(_)
Normalise(runs) ==
    IF Len(runs) < 2 THEN runs
    ELSE IF runs[1].v = runs[2].v
         THEN Normalise(<<[n |-> runs[1].n + runs[2].n, v |-> runs[1].v]>>
                        \o SubSeq(runs, 3, Len(runs)))
         ELSE <<runs[1]>> \o Normalise(Tail(runs))

RECURSIVE SortSet(_)
SortSet(S) ==
    IF S = {} THEN <<>>
    ELSE LET m == CHOOSE x \in S : \A y \in S : x <= y
         IN  <<m>> \o SortSet(S \ {m})

\* v[a:b] taken with the end index included
RunSliceInclusive(runs, a, b) ==
    LET len == RunLen(runs)
        lo  == Min(a, len)
        hi  == Min(b + 1, len)
        Cut(k) == LET s == RunStart(runs, k)
                      e == s + runs[k].n
                  IN  Max(0, Min(e, hi) - Max(s, lo))
        cut == [k \in 1..Len(runs) |-> [n |-> Cut(k), v |-> runs[k].v]]
    IN  SelectSeq(cut, LAMBDA r : r.n > 0)

\* the Python slice v[a:b] of a vector, 0 <= a, 0 <= b: both ends are clipped to
\* the length, the end index is not included
RunSlice(runs, a, b) ==
    LET len == RunLen(runs)
        lo  == Min(a, len)
        hi  == Min(b, len)
        Cut(k) == LET s == RunStart(runs, k)
                      e == s + runs[k].n
                  IN  Max(0, Min(e, hi) - Max(s, lo))
        cut == [k \in 1..Len(runs) |-> [n |-> Cut(k), v |-> runs[k].v]]
    IN  SelectSeq(cut, LAMBDA r : r.n > 0)

\* numpy.median of a non-empty vector: the middle element of the sorted values,
\* or the mean of the two middle elements when the count is even
RunMedian(runs) ==
    LET T    == RunLen(runs)
        vals == {runs[k].v : k \in 1..Len(runs)}
        CountLE(x) == RunLen(SelectSeq(runs, LAMBDA r : r.v <= x))
        Rank(i) == CHOOSE x \in vals :
                      /\ CountLE(x) > i
                      /\ \A y \in vals : y < x => CountLE(y) <= i
    IN  (Rank((T - 1) \div 2) + Rank(T \div 2)) \div 2

\* numpy broadcasting of a - b for two column vectors of shapes (la, 1) and
\* (lb, 1): a vector of length 1 is stretched to the length of the other
RowDiff(a, b) ==
    LET la == RunLen(a)
        lb == RunLen(b)
        L  == Max(la, lb)
        A(i) == RunAt(a, IF la = 1 THEN 0 ELSE i)
        B(i) == RunAt(b, IF lb = 1 THEN 0 ELSE i)
        cuts == SortSet({x \in RunBounds(a) \cup RunBounds(b) : x < L})
        End(k) == IF k = Len(cuts) THEN L ELSE cuts[k + 1]
    IN  Normalise([k \in 1..Len(cuts) |->
                      [n |-> End(k) - cuts[k], v |-> A(cuts[k]) - B(cuts[k])]])

(***************************************************************************)
(* Images and the library calls the notebook makes on them.                *)
(***************************************************************************)
TrimCol == 2048

OscanCol == 2055

NRows(img) == RunLen(img.rows)

NCols(img) == RunLen(img.cols)

\* data[r, c] of an image whose pixels are numbers (nan = FALSE)
Pixel(img, r, c) == RunAt(img.rows, r) + RunAt(img.cols, c)

\* the array all of whose pixels are NaN, of the given shape
AllNaN(nr, nc) ==
    [rows |-> <<[n |-> nr, v |-> 0]>>,
     cols |-> IF nc = 0 THEN <<>> ELSE <<[n |-> nc, v |-> 0]>>,
     nan  |-> TRUE]

\* ccd[:, a:b]: every row, the columns a to b - 1
SliceCols(img, a, b) == [img EXCEPT !.cols = RunSlice(img.cols, a, b)]

\* ccd[:, a:]: every row, the columns from a to the last one
SliceColsFrom(img, a) == SliceCols(img, a, NCols(img))

\* numpy.median(overscan.data, axis=1): one value per row of the overscan region;
\* NaN for every row when the region has no column
OverscanMedian(overscan) ==
    IF overscan.cols = <<>> \/ overscan.nan
    THEN [nan |-> TRUE, runs |-> <<[n |-> NRows(overscan), v |-> 0]>>]
    ELSE [nan  |-> FALSE,
          runs |-> LET m == RunMedian(overscan.cols)
                   IN  Normalise([k \in 1..Len(overscan.rows) |->
                           [n |-> overscan.rows[k].n, v |-> overscan.rows[k].v + m]])]

(***************************************************************************)
(* A CCDData object: the array and the IMAGETYP card of its header.        *)
(***************************************************************************)
CCDData(img, imagetyp) == [img |-> img, imagetyp |-> imagetyp]

\* subtract_overscan with median=False: the mean of each row of the region
subtract_overscan_mean(ccd, overscan) ==
    LET region == overscan.img
        T == NCols(region)
        Sum(runs) == LET S[k \in 0..Len(runs)] ==
                            IF k = 0 THEN 0 ELSE S[k - 1] + runs[k].n * runs[k].v
                     IN  S[Len(runs)]
        R == NRows(ccd.img)
        N == NRows(region)
    IN  IF R # N /\ R # 1 /\ N # 1
        THEN [ok |-> FALSE, ccd |-> ccd]
        ELSE [ok  |-> TRUE,
              ccd |-> [ccd EXCEPT !.img =
                         IF ccd.img.nan \/ region.nan \/ T = 0
                         THEN AllNaN(Max(R, N), NCols(ccd.img))
                         ELSE [rows |-> RowDiff(ccd.img.rows,
                                          Normalise([k \in 1..Len(region.rows) |->
                                             [n |-> region.rows[k].n,
                                              v |-> region.rows[k].v
                                                      + (Sum(region.cols) \div T)]])),
                               cols |-> ccd.img.cols,
                               nan  |-> FALSE]]]

\* ccdproc.subtract_overscan(ccd, overscan=overscan, median=True), with the
\* default overscan_axis=1: the median of the overscan region along each row is
\* subtracted from every pixel of that row of ccd (ccd.data - oscan, oscan of
\* shape (rows, 1)).  ok = FALSE: numpy raises ValueError, the two shapes do not
\* broadcast.
subtract_overscan(ccd, overscan) ==
    LET oscan == OverscanMedian(overscan.img)
        R == NRows(ccd.img)
        N == RunLen(oscan.runs)
    IN  IF R # N /\ R # 1 /\ N # 1
        THEN [ok |-> FALSE, ccd |-> ccd]
        ELSE [ok  |-> TRUE,
              ccd |-> [ccd EXCEPT !.img =
                         IF ccd.img.nan \/ oscan.nan
                         THEN AllNaN(Max(R, N), NCols(ccd.img))
                         ELSE [rows |-> RowDiff(ccd.img.rows, oscan.runs),
                               cols |-> ccd.img.cols,
                               nan  |-> FALSE]]]

\* ccdproc.trim_image(ccd) without fits_section: a copy of its argument (the
\* notebook crops by slicing the argument)
trim_image(ccd) == ccd

\* ccd[a:b, :]: the two indices in the FITS order
CCDSliceRows(ccd, a, b) == [ccd EXCEPT !.img.rows = RunSlice(ccd.img.rows, a, b)]

\* ccd[:, a:b] and ccd[:, a:] on a CCDData object
CCDSlice(ccd, a, b) == [ccd EXCEPT !.img = SliceCols(ccd.img, a, b)]

CCDSliceFrom(ccd, a) == [ccd EXCEPT !.img = SliceColsFrom(ccd.img, a)]

(***************************************************************************)
(* The disk: two folders; a folder holds files by name.  File names are    *)
(* numbers (ccd.001.0.fits.gz is 1) and a listing is in increasing order.  *)
(* A file is [imagetyp, readable, img]; readable = FALSE: CCDData.read of  *)
(* the file raises.                                                        *)
(***************************************************************************)
RawFolder == "python_imred_data"

ReducedFolder == "reduced"

Folders == {RawFolder, ReducedFolder}

NoFiles == [x \in {} |-> x]

FitsFile(imagetyp, readable, img) ==
    [imagetyp |-> imagetyp, readable |-> readable, img |-> img]

\* pathlib.Path.mkdir(**kwargs): an unknown keyword is a TypeError raised before
\* anything is done; an existing folder is an error unless exist_ok is given
PathMkdir(d, folder, kwargs) ==
    IF ~(kwargs \subseteq {"mode", "parents", "exist_ok"})
    THEN [ok |-> FALSE, disk |-> d]
    ELSE IF d[folder].exists
         THEN [ok |-> "exist_ok" \in kwargs, disk |-> d]
         ELSE [ok |-> TRUE, disk |-> [d EXCEPT ![folder].exists = TRUE]]

\* CCDData.read(path, unit='adu')
CCDRead(d, folder, name) ==
    IF d[folder].exists /\ name \in DOMAIN d[folder].files
                        /\ d[folder].files[name].readable
    THEN [ok  |-> TRUE,
          ccd |-> CCDData(d[folder].files[name].img, d[folder].files[name].imagetyp)]
    ELSE [ok |-> FALSE, ccd |-> CCDData([rows |-> <<>>, cols |-> <<>>, nan |-> FALSE], "NONE")]

\* ccd.write(folder / name), overwrite=False: fails when the folder is missing
\* and when the file exists
CCDWrite(d, folder, name, ccd, overwrite) ==
    IF ~d[folder].exists \/ (name \in DOMAIN d[folder].files /\ ~overwrite)
    THEN [ok |-> FALSE, disk |-> d]
    ELSE [ok   |-> TRUE,
          disk |-> [d EXCEPT ![folder].files =
                      [x \in (DOMAIN @) \cup {name} |->
                          IF x = name THEN FitsFile(ccd.imagetyp, TRUE, ccd.img)
                          ELSE @[x]]]]

\* ccdproc.ImageFileCollection(folder): the summary table, one row per file of
\* the folder in the order of the listing; naxis1 is the number of columns and
\* naxis2 the number of rows of the array (FITS axis 1 runs along a row)
ImageFileCollection(d, folder) ==
    IF ~d[folder].exists
    THEN [ok |-> FALSE, location |-> folder, summary |-> <<>>]
    ELSE [ok |-> TRUE, location |-> folder,
          summary |-> LET names == SortSet(DOMAIN d[folder].files)
                      IN  [k \in 1..Len(names) |->
                             [file     |-> names[k],
                              imagetyp |-> d[folder].files[names[k]].imagetyp,
                              naxis1   |-> NCols(d[folder].files[names[k]].img),
                              naxis2   |-> NRows(d[folder].files[names[k]].img)]]]

\* every file of the summary, whatever its type
files_unfiltered(coll, t) ==
    [k \in 1..Len(coll.summary) |-> coll.summary[k].file]

\* files.files_filtered(imagetyp=t): the names of the rows of the summary whose
\* imagetyp is t, in the order of the summary
files_filtered(coll, t) ==
    LET rows == SelectSeq(coll.summary, LAMBDA row : row.imagetyp = t)
    IN  [k \in 1..Len(rows) |-> rows[k].file]

(***************************************************************************)
(* The state of a notebook session.                                        *)
(***************************************************************************)
VARIABLES
    pc,          \* the cell that runs next; "halted" after an error under Run All
    lpc,         \* inside the folder loop: the statement that runs next
    stopOnError, \* TRUE: the cells run with Run All, which stops at the first error
    disk,        \* the two folders
    disk0,       \* the disk when the session started (never changes)
    defined,     \* the names bound in the kernel
    errors,      \* the cells that raised
    calibrated_data, files, raw_biases, first_bias,
    bias_overscan_subtracted, trimmed_bias,
    it,          \* the number of images the generator files.ccds(...) is past
    ccd, file_name,
    loop,        \* "pending", "running", "done" (StopIteration), "error" (uncaught)
    failedAt,    \* the file name at which a statement of the loop raised, 0: none
    log,         \* the statements of the loop body completed so far, <<statement, file>>
    reduced_images,
    shape,       \* the shape (rows, columns) of the array a region is taken from
    section,     \* a FITS section of that array, as a header or the text gives it
    pyslice,     \* a Python slice of that array
    ipc          \* what has been done with the region: "idle" in a notebook session

vars == <<pc, lpc, stopOnError, disk, disk0, defined, errors, calibrated_data, files,
          raw_biases, first_bias, bias_overscan_subtracted, trimmed_bias, it, ccd,
          file_name, loop, failedAt, log, reduced_images, shape, section, pyslice,
          ipc>>

notebookVars == <<pc, lpc, stopOnError, disk, disk0, defined, errors, calibrated_data,
                  files, raw_biases, first_bias, bias_overscan_subtracted, trimmed_bias,
                  it, ccd, file_name, loop, failedAt, log, reduced_images>>

indexVars == <<shape, section, pyslice, ipc>>

sampleVars == <<raw_biases, first_bias, bias_overscan_subtracted, trimmed_bias>>

loopVars == <<lpc, it, ccd, file_name, loop, failedAt, log>>

NoImage == [rows |-> <<>>, cols |-> <<>>, nan |-> FALSE]

NoCCD == CCDData(NoImage, "NONE")

NoCollection == [ok |-> FALSE, location |-> "", summary |-> <<>>]

FitsSection(x1, x2, y1, y2) == [x1 |-> x1, x2 |-> x2, y1 |-> y1, y2 |-> y2]

PySlice(r0, r1, c0, c1) == [r0 |-> r0, r1 |-> r1, c0 |-> c0, c1 |-> c1]

NoSection == FitsSection(0, 0, 0, 0)

NoSlice == PySlice(0, 0, 0, 0)

(***************************************************************************)
(* The folders a session may start from.                                   *)
(***************************************************************************)
MaxFiles == 3

Run(n, v) == [n |-> n, v |-> v]

Image(rows, cols) == [rows |-> rows, cols |-> cols, nan |-> FALSE]

ImageTypes == {"BIAS", "DARK", "FLAT", "LIGHT"}

\* the 2080 columns of an LFC image: 2048 exposed columns, 7 overscan columns that
\* light leaks into, 25 clean overscan columns
ColsLFC(o1, o2) == Normalise(<<Run(2048, 2000), Run(7, 2060), Run(12, o1), Run(13, o2)>>)

\* small arrays: 1 to 3 rows, 2040 to 2080 columns
SmallImages ==
    { Image(<<Run(1, 0), Run(1, 4)>>, ColsLFC(2010, 2012)),
      Image(<<Run(2, 0)>>, ColsLFC(2030, 2030)),
      Image(<<Run(1, 0)>>, ColsLFC(2016, 2020)),
      Image(<<Run(3, 0)>>, <<Run(2048, 2000), Run(7, 2060), Run(1, 2020), Run(1, 2022)>>),
      Image(<<Run(2, 0)>>, <<Run(2048, 2000)>>),
      Image(<<Run(1, 0), Run(1, 2)>>, <<Run(2040, 2000)>>) }

SmallFiles ==
    {FitsFile("BIAS", TRUE, img) : img \in SmallImages}
    \cup {FitsFile(t, TRUE, Image(<<Run(1, 0), Run(1, 4)>>, ColsLFC(2010, 2012))) :
             t \in ImageTypes \ {"BIAS"}}
    \cup {FitsFile("BIAS", FALSE, Image(<<Run(2, 0)>>, ColsLFC(2030, 2030)))}

\* arrays of the size of the raw LFC images: 4128 rows of 2080 columns
RawRows == 4128

RawCols == 2080

LFCImages ==
    { Image(<<Run(1, 0), Run(RawRows - 1, 2)>>, ColsLFC(2010, 2012)),
      Image(<<Run(RawRows, 0)>>, ColsLFC(2030, 2030)) }

LFCFiles ==
    {FitsFile("BIAS", TRUE, img) : img \in LFCImages}
    \cup {FitsFile(t, TRUE, Image(<<Run(RawRows, 0)>>, ColsLFC(2030, 2030))) :
             t \in ImageTypes \ {"BIAS"}}
    \cup {FitsFile("BIAS", FALSE, Image(<<Run(RawRows, 0)>>, ColsLFC(2030, 2030)))}

\* the folder reduced when the session starts: missing, empty, or holding what an
\* earlier session wrote under the name of the first bias file (that file, cropped)
ReducedStates == {"missing", "empty", "stale"}

ReducedAtStart(state, raw) ==
    LET biases == {x \in DOMAIN raw : raw[x].imagetyp = "BIAS"}
        first  == CHOOSE x \in biases : \A y \in biases : x <= y
    IN  [exists |-> state # "missing",
         files  |-> IF state = "stale" /\ biases # {}
                    THEN [x \in {first} |->
                            FitsFile("BIAS", TRUE, SliceCols(raw[first].img, 0, TrimCol))]
                    ELSE NoFiles]

KernelFresh ==
    /\ lpc = "next"
    /\ defined = {}
    /\ errors = {}
    /\ calibrated_data = ""
    /\ files = NoCollection
    /\ raw_biases = <<>>
    /\ first_bias = NoCCD
    /\ bias_overscan_subtracted = NoCCD
    /\ trimmed_bias = NoCCD
    /\ it = 0
    /\ ccd = NoCCD
    /\ file_name = 0
    /\ loop = "pending"
    /\ failedAt = 0
    /\ log = <<>>
    /\ reduced_images = NoCollection

InitFrom(Files) ==
    /\ stopOnError \in BOOLEAN
    /\ \E n \in 1..MaxFiles : \E raw \in [1..n -> Files] : \E state \in ReducedStates :
          disk = [f \in Folders |->
                    IF f = RawFolder THEN [exists |-> TRUE, files |-> raw]
                    ELSE ReducedAtStart(state, raw)]
    /\ disk0 = disk
    /\ pc = "setup"
    /\ KernelFresh
    /\ shape = <<0, 0>>
    /\ section = NoSection
    /\ pyslice = NoSlice
    /\ ipc = "idle"

Init == InitFrom(SmallFiles)

InitLFC == InitFrom(LFCFiles)

(***************************************************************************)
(* The cells, in the order of the notebook.  A cell that raises leaves the *)
(* names it had bound before the error; the session then stops (Run All)   *)
(* or goes on with the next cell.                                          *)
(***************************************************************************)
NextCell(cell) ==
    CASE cell = "setup"           -> "collect"
      [] cell = "collect"         -> "raw_biases"
      [] cell = "raw_biases"      -> "first_bias"
      [] cell = "first_bias"      -> "sample_subtract"
      [] cell = "sample_subtract" -> "sample_trim"
      [] cell = "sample_trim"     -> "loop"
      [] cell = "loop"            -> "check"
      [] cell = "check"           -> "done"

After(cell, ok) == IF ~ok /\ stopOnError THEN "halted" ELSE NextCell(cell)

Raised(cell, ok) == IF ok THEN errors ELSE errors \cup {cell}

\* calibrated_data = Path('.', 'reduced'); calibrated_data.mkdir(exists_ok=True)
Setup ==
    /\ pc = "setup"
    /\ LET r == PathMkdir(disk, ReducedFolder, {"exists_ok"})
       IN  /\ calibrated_data' = ReducedFolder
           /\ defined' = defined \cup {"calibrated_data"}
           /\ disk' = r.disk
           /\ errors' = Raised("setup", r.ok)
           /\ pc' = After("setup", r.ok)
    /\ UNCHANGED <<indexVars, stopOnError, disk0, files, sampleVars, loopVars, reduced_images>>

\* files = ccdp.ImageFileCollection('python_imred_data')
Collect ==
    /\ pc = "collect"
    /\ LET r == ImageFileCollection(disk, RawFolder)
       IN  /\ files' = IF r.ok THEN r ELSE files
           /\ defined' = IF r.ok THEN defined \cup {"files"} ELSE defined
           /\ errors' = Raised("collect", r.ok)
           /\ pc' = After("collect", r.ok)
    /\ UNCHANGED <<indexVars, stopOnError, disk, disk0, calibrated_data, sampleVars, loopVars,
                   reduced_images>>

\* raw_biases = files.files_filtered(include_path=True, imagetyp='BIAS')
RawBiases ==
    /\ pc = "raw_biases"
    /\ LET ok == "files" \in defined
       IN  /\ raw_biases' = IF ok THEN files_filtered(files, "BIAS") ELSE raw_biases
           /\ defined' = IF ok THEN defined \cup {"raw_biases"} ELSE defined
           /\ errors' = Raised("raw_biases", ok)
           /\ pc' = After("raw_biases", ok)
    /\ UNCHANGED <<indexVars, stopOnError, disk, disk0, calibrated_data, files, first_bias,
                   bias_overscan_subtracted, trimmed_bias, loopVars, reduced_images>>

\* first_bias = CCDData.read(raw_biases[0], unit='adu'): IndexError when there is
\* no bias file
FirstBias ==
    /\ pc = "first_bias"
    /\ LET r  == IF "raw_biases" \in defined /\ raw_biases # <<>>
                 THEN CCDRead(disk, files.location, raw_biases[1])
                 ELSE [ok |-> FALSE, ccd |-> NoCCD]
       IN  /\ first_bias' = IF r.ok THEN r.ccd ELSE first_bias
           /\ defined' = IF r.ok THEN defined \cup {"first_bias"} ELSE defined
           /\ errors' = Raised("first_bias", r.ok)
           /\ pc' = After("first_bias", r.ok)
    /\ UNCHANGED <<indexVars, stopOnError, disk, disk0, calibrated_data, files, raw_biases,
                   bias_overscan_subtracted, trimmed_bias, loopVars, reduced_images>>

\* bias_overscan_subtracted = ccdp.subtract_overscan(first_bias,
\*     overscan=first_bias[:, 2055:], median=True)
SampleSubtract ==
    /\ pc = "sample_subtract"
    /\ LET r == IF "first_bias" \in defined
                THEN subtract_overscan(first_bias, CCDSliceFrom(first_bias, OscanCol))
                ELSE [ok |-> FALSE, ccd |-> NoCCD]
       IN  /\ bias_overscan_subtracted' = IF r.ok THEN r.ccd ELSE bias_overscan_subtracted
           /\ defined' = IF r.ok THEN defined \cup {"bias_overscan_subtracted"} ELSE defined
           /\ errors' = Raised("sample_subtract", r.ok)
           /\ pc' = After("sample_subtract", r.ok)
    /\ UNCHANGED <<indexVars, stopOnError, disk, disk0, calibrated_data, files, raw_biases,
                   first_bias, trimmed_bias, loopVars, reduced_images>>

\* trimmed_bias = ccdp.trim_image(bias_overscan_subtracted[:, :2048])
SampleTrim ==
    /\ pc = "sample_trim"
    /\ LET ok == "bias_overscan_subtracted" \in defined
       IN  /\ trimmed_bias' = IF ok
                              THEN trim_image(CCDSlice(bias_overscan_subtracted, 0, TrimCol))
                              ELSE trimmed_bias
           /\ defined' = IF ok THEN defined \cup {"trimmed_bias"} ELSE defined
           /\ errors' = Raised("sample_trim", ok)
           /\ pc' = After("sample_trim", ok)
    /\ UNCHANGED <<indexVars, stopOnError, disk, disk0, calibrated_data, files, raw_biases,
                   first_bias, bias_overscan_subtracted, loopVars, reduced_images>>

(***************************************************************************)
(* The folder loop:                                                        *)
(*   for ccd, file_name in files.ccds(imagetyp='BIAS', ..., return_fname=True): *)
(*       ccd = ccdp.subtract_overscan(ccd, overscan=first_bias[:, 2055:],  *)
(*                                    median=True)                         *)
(*       ccd = ccdp.trim_image(ccd[:, :2048])                              *)
(*       ccd.write(calibrated_data / file_name)                            *)
(* One action per statement; the generator reads a file when it yields it. *)
(***************************************************************************)
\* the files the generator goes through: fixed by the summary of the collection
BiasList == files_filtered(files, "BIAS")

\* the subtraction and the crop exchanged
LoopStepSwapped(step) ==
    CASE step = "next"     -> "trim"
      [] step = "trim"     -> "subtract"
      [] step = "subtract" -> "write"
      [] step = "write"    -> "next"

\* the statement that follows a completed statement of the loop
LoopStepAfter(step) ==
    CASE step = "next"     -> "subtract"
      [] step = "subtract" -> "trim"
      [] step = "trim"     -> "write"
      [] step = "write"    -> "next"

\* the exception caught and the image skipped
Skipped(i) == [loop |-> "running", it |-> i + 1]

\* a statement raises while the generator is past i images: nothing catches the
\* exception, the for statement ends
Uncaught(i) == [loop |-> "error", it |-> i]

\* the result written over the raw file
WriteOverRaw(d, name, c) == CCDWrite(d, files.location, name, c, TRUE)

\* ccd.write(calibrated_data / file_name)
WriteReduced(d, name, c) == CCDWrite(d, calibrated_data, name, c, FALSE)

LoopFails(name) ==
    LET r == Uncaught(it)
    IN  /\ loop' = r.loop
        /\ it' = r.it
        /\ lpc' = "next"
        /\ failedAt' = name
        /\ errors' = errors \cup {"loop"}
        /\ pc' = IF r.loop = "error" THEN After("loop", FALSE) ELSE "loop"
        /\ UNCHANGED <<ccd, file_name, log, disk>>

LoopNext ==
    /\ pc = "loop" /\ lpc = "next"
    /\ IF "files" \notin defined
       THEN LoopFails(0)
       ELSE IF it >= Len(BiasList)
       THEN /\ loop' = "done"
            /\ pc' = NextCell("loop")
            /\ UNCHANGED <<lpc, it, ccd, file_name, failedAt, log, errors, disk>>
       ELSE LET name == BiasList[it + 1]
                r    == CCDRead(disk, files.location, name)
            IN  IF r.ok
                THEN /\ ccd' = r.ccd
                     /\ file_name' = name
                     /\ loop' = "running"
                     /\ lpc' = LoopStepAfter("next")
                     /\ log' = Append(log, <<"read", name>>)
                     /\ UNCHANGED <<pc, it, failedAt, errors, disk>>
                ELSE LoopFails(name)
    /\ UNCHANGED <<indexVars, stopOnError, disk0, defined, calibrated_data, files, sampleVars,
                   reduced_images>>

LoopSubtract ==
    /\ pc = "loop" /\ lpc = "subtract"
    /\ LET r == IF "first_bias" \in defined
                THEN subtract_overscan(ccd, CCDSliceFrom(first_bias, OscanCol))
                ELSE [ok |-> FALSE, ccd |-> ccd]
       IN  IF r.ok
           THEN /\ ccd' = r.ccd
                /\ lpc' = LoopStepAfter("subtract")
                /\ log' = Append(log, <<"subtract", file_name>>)
                /\ UNCHANGED <<pc, it, file_name, loop, failedAt, errors, disk>>
           ELSE LoopFails(file_name)
    /\ UNCHANGED <<indexVars, stopOnError, disk0, defined, calibrated_data, files, sampleVars,
                   reduced_images>>

LoopTrim ==
    /\ pc = "loop" /\ lpc = "trim"
    /\ ccd' = trim_image(CCDSlice(ccd, 0, TrimCol))
    /\ lpc' = LoopStepAfter("trim")
    /\ log' = Append(log, <<"trim", file_name>>)
    /\ UNCHANGED <<pc, it, file_name, loop, failedAt, errors, disk>>
    /\ UNCHANGED <<indexVars, stopOnError, disk0, defined, calibrated_data, files, sampleVars,
                   reduced_images>>

LoopWrite ==
    /\ pc = "loop" /\ lpc = "write"
    /\ LET r == WriteReduced(disk, file_name, ccd)
       IN  IF r.ok
           THEN /\ disk' = r.disk
                /\ it' = it + 1
                /\ lpc' = LoopStepAfter("write")
                /\ log' = Append(log, <<"write", file_name>>)
                /\ UNCHANGED <<pc, ccd, file_name, loop, failedAt, errors>>
           ELSE LoopFails(file_name)
    /\ UNCHANGED <<indexVars, stopOnError, disk0, defined, calibrated_data, files, sampleVars,
                   reduced_images>>

\* reduced_images = ccdp.ImageFileCollection('reduced')
\* reduced_images.summary['file', 'imagetyp', 'naxis1', 'naxis2']
Check ==
    /\ pc = "check"
    /\ LET r == ImageFileCollection(disk, ReducedFolder)
       IN  /\ reduced_images' = IF r.ok THEN r ELSE reduced_images
           /\ defined' = IF r.ok THEN defined \cup {"reduced_images"} ELSE defined
           /\ errors' = Raised("check", r.ok)
           /\ pc' = After("check", r.ok)
    /\ UNCHANGED <<indexVars, stopOnError, disk, disk0, calibrated_data, files, sampleVars, loopVars>>

Next ==
    \/ Setup
    \/ Collect
    \/ RawBiases
    \/ FirstBias
    \/ SampleSubtract
    \/ SampleTrim
    \/ LoopNext
    \/ LoopSubtract
    \/ LoopTrim
    \/ LoopWrite
    \/ Check

Spec == Init /\ [][Next]_vars

SpecLFC == InitLFC /\ [][Next]_vars

(***************************************************************************)
(* Regions of an image: FITS sections and Python slices.                   *)
(*                                                                         *)
(* A region is a rectangle, kept as <<rows, columns>>: the array indexes   *)
(* it takes along each axis.  Its pixels are the pairs of the two.         *)
(***************************************************************************)
MaxSide == 3

\* FITS numbers the pixels of an axis from 1, and a range a:b has both ends
FitsRange(naxis, a, b) == {x \in 1..naxis : a <= x /\ x <= b}

\* the array index of the pixel FITS numbers x
ArrayIndex(x) == x - 1

\* The first range of a section runs along NAXIS1, the last axis of the array.
FitsSelect(shp, sec) ==
    << {ArrayIndex(y) : y \in FitsRange(shp[1], sec.y1, sec.y2)},
       {ArrayIndex(x) : x \in FitsRange(shp[2], sec.x1, sec.x2)} >>

\* Python numbers from 0, and a range lo:hi stops before hi
SliceRange(len, lo, hi) == {i \in 0..(len - 1) : lo <= i /\ i < hi}

PySelect(shp, sl) ==
    << SliceRange(shp[1], sl.r0, sl.r1), SliceRange(shp[2], sl.c0, sl.c1) >>

FitsToPythonUnswapped(sec) == PySlice(sec.x1 - 1, sec.x2, sec.y1 - 1, sec.y2)

\* "switch the order", start one lower, end unchanged
FitsToPython(sec) == PySlice(sec.y1 - 1, sec.y2, sec.x1 - 1, sec.x2)

OverscanSliceNominal(shp) == PySlice(0, shp[1], TrimCol, shp[2])

\* first_bias[:, 2055:] on an array of this shape
OverscanSlice(shp) == PySlice(0, shp[1], OscanCol, shp[2])

\* the sections the notebooks give for the LFC images
ExposedSec == FitsSection(1, 2048, 1, 4128)

HeaderBiasSec == FitsSection(2049, 2080, 1, 4127)

UsefulBiasSec == FitsSection(2056, 2080, 1, 4127)

LFCShape == <<RawRows, RawCols>>

SmallShapes == (1..MaxSide) \X (1..MaxSide)

Sections(shp) ==
    IF shp = LFCShape THEN {ExposedSec, HeaderBiasSec, UsefulBiasSec}
    ELSE {sec \in [x1 : 1..shp[2], x2 : 1..shp[2], y1 : 1..shp[1], y2 : 1..shp[1]] :
             sec.x1 <= sec.x2 /\ sec.y1 <= sec.y2}

InitIndex ==
    /\ stopOnError = FALSE
    /\ disk = [f \in Folders |-> [exists |-> FALSE, files |-> NoFiles]]
    /\ disk0 = disk
    /\ pc = "none"
    /\ KernelFresh
    /\ shape \in SmallShapes \cup {LFCShape}
    /\ section = NoSection
    /\ pyslice = NoSlice
    /\ ipc = "start"

\* a section is read from the header or from the text
ReadSection ==
    /\ ipc = "start"
    /\ section' \in Sections(shape)
    /\ ipc' = "section"
    /\ UNCHANGED <<notebookVars, shape, pyslice>>

\* the section is rewritten as a Python slice
ConvertSection ==
    /\ ipc = "section"
    /\ pyslice' = FitsToPython(section)
    /\ ipc' = "converted"
    /\ UNCHANGED <<notebookVars, shape, section>>

\* the overscan argument of subtract_overscan is sliced out of the array
SliceOverscan ==
    /\ ipc = "start"
    /\ pyslice' = OverscanSlice(shape)
    /\ ipc' = "overscan"
    /\ UNCHANGED <<notebookVars, shape, section>>

NextIndex ==
    \/ ReadSection
    \/ ConvertSection
    \/ SliceOverscan

SpecIndex == InitIndex /\ [][NextIndex]_vars

(***************************************************************************)
(* Properties.                                                             *)
(***************************************************************************)
RawFile(name) == disk0[RawFolder].files[name]

ReducedFile(name) == disk[ReducedFolder].files[name]

RawBiasNames == {x \in DOMAIN disk0[RawFolder].files : RawFile(x).imagetyp = "BIAS"}

\* the files whose write statement the loop has completed
Written == {log[k][2] : k \in {j \in 1..Len(log) : log[j][1] = "write"}}

StartedEmpty == disk0[ReducedFolder].exists /\ DOMAIN disk0[ReducedFolder].files = {}

\* C1: every array the folder loop writes has the rows of its input and the
\* columns of its input minus the cropped columns 2048 to the last, for an input
\* of at least 2048 columns.
C1_DimensionsPreserved ==
    \A name \in Written :
        LET in  == RawFile(name).img
            out == ReducedFile(name).img
        IN  NCols(in) >= TrimCol =>
               /\ NRows(out) = NRows(in)
               /\ NCols(out) = NCols(in) - (NCols(in) - TrimCol)

\* C2: when the folder loop finishes, having started from an empty folder
\* reduced, the files of reduced are exactly the raw files of type BIAS, one
\* output per input under the same name, each written once, and none is of
\* another type.
C2_ReducedAreTheBiases ==
    (loop = "done" /\ StartedEmpty) =>
        /\ DOMAIN disk[ReducedFolder].files = RawBiasNames
        /\ Cardinality(DOMAIN disk[ReducedFolder].files) = Cardinality(RawBiasNames)
        /\ \A x \in DOMAIN disk[ReducedFolder].files : ReducedFile(x).imagetyp = "BIAS"
        /\ \A x \in RawBiasNames :
              Cardinality({j \in 1..Len(log) : log[j] = <<"write", x>>}) = 1

C2_Witness ==
    /\ loop = "done" /\ StartedEmpty
    /\ Cardinality(RawBiasNames) = 2
    /\ \E x \in DOMAIN disk0[RawFolder].files : RawFile(x).imagetyp = "DARK"
    /\ DOMAIN disk[ReducedFolder].files = RawBiasNames

\* C3: in the folder loop the value subtracted from an image is derived from
\* the overscan region (columns 2055 to the end) of that same image: after the
\* subtraction, ccd is the raw image minus the row medians of its own region.
C3_OverscanOfSameImage ==
    (pc = "loop" /\ lpc = "trim") =>
        LET raw == CCDData(RawFile(file_name).img, RawFile(file_name).imagetyp)
        IN  ccd = subtract_overscan(raw, CCDSliceFrom(raw, OscanCol)).ccd

\* C4: after the setup cell the folder reduced exists and the cell has raised no
\* error, whether or not the folder was there before.
C4_FolderCreated ==
    pc # "setup" => (disk[ReducedFolder].exists /\ "setup" \notin errors)

\* the table the check cell displays for the folder reduced as it is now
ReducedSummary == ImageFileCollection(disk, ReducedFolder).summary

LoopOver == loop \in {"done", "error"}

DocNaxis1 == 2048

DocNaxis2 == 4148

BiasOrder == SortSet(RawBiasNames)

RECURSIVE ExpectedLog(_)
ExpectedLog(names) ==
    IF names = <<>> THEN <<>>
    ELSE << <<"read", Head(names)>>, <<"subtract", Head(names)>>,
            <<"trim", Head(names)>>, <<"write", Head(names)>> >>
         \o ExpectedLog(Tail(names))

IsPrefix(a, b) == Len(a) <= Len(b) /\ SubSeq(b, 1, Len(a)) = a

\* C6: the loop reads each bias image once and writes it once, subtracts before
\* it crops and crops before it writes, takes the images one after the other in
\* the order of the list (nothing is done to another image between the read and
\* the write of one), and ends after the last image.
C6_InSequence ==
    /\ IsPrefix(log, ExpectedLog(BiasOrder))
    /\ loop = "done" => (log = ExpectedLog(BiasOrder) /\ it = Len(BiasOrder) /\ pc # "loop")
    /\ loop = "pending" => log = <<>>

C6_Witness ==
    /\ loop = "done"
    /\ Len(BiasOrder) = 3
    /\ Len(log) = 12

\* C7: the raw folder is never written: every file of python_imred_data has the
\* content it had when the session started, no file is added to it, and what
\* the loop writes is in reduced.
C7_RawUntouched ==
    /\ disk[RawFolder] = disk0[RawFolder]
    /\ Written \subseteq DOMAIN disk[ReducedFolder].files

C7_Witness ==
    /\ loop = "done"
    /\ Cardinality(Written) = 2
    /\ disk[RawFolder] = disk0[RawFolder]

\* the file of folder reduced under a name, on a disk d
ReducedOn(d, name) ==
    IF d[ReducedFolder].exists /\ name \in DOMAIN d[ReducedFolder].files
    THEN <<"file", d[ReducedFolder].files[name]>>
    ELSE <<"none">>

\* C8: a statement of the loop that raises (read, subtraction, crop or write)
\* ends the loop at that image: the loop cell is over with an error, reduced holds
\* for that image and for every later image what it held at the start, and the
\* outputs written for the earlier images are in place.
C8_ErrorEndsLoop ==
    failedAt # 0 =>
        /\ pc # "loop" /\ loop = "error" /\ "loop" \in errors
        /\ \E k \in 1..Len(BiasOrder) :
              /\ BiasOrder[k] = failedAt
              /\ \A j \in k..Len(BiasOrder) :
                    ReducedOn(disk, BiasOrder[j]) = ReducedOn(disk0, BiasOrder[j])
              /\ \A j \in 1..(k - 1) :
                    /\ BiasOrder[j] \in Written
                    /\ ReducedOn(disk0, BiasOrder[j]) = <<"none">>
                    /\ ReducedOn(disk, BiasOrder[j]) # <<"none">>
              /\ Written = {BiasOrder[j] : j \in 1..(k - 1)}

C8_Witness ==
    /\ pc = "done" /\ failedAt # 0
    /\ Len(BiasOrder) = 3
    /\ BiasOrder[2] = failedAt
    /\ Written = {BiasOrder[1]}
    /\ RawFile(failedAt).readable

\* The first index of every run: a run-length encoded vector is constant from one
\* of these indices to the next, so a statement about all pixels of two arrays
\* is decided on the rows and columns where a run of either array starts.
Reps(runs) == {RunStart(runs, k) : k \in 1..Len(runs)}

RowReps(a, b) == Reps(a.rows) \cup Reps(b.rows)

ColReps(a, b) == Reps(a.cols) \cup Reps(b.cols)

\* the median of a list of numbers, by sorting it
RECURSIVE SortList(_)
SortList(seq) ==
    IF seq = <<>> THEN <<>>
    ELSE LET i == CHOOSE j \in 1..Len(seq) : \A k \in 1..Len(seq) : seq[j] <= seq[k]
         IN  <<seq[i]>> \o SortList(SubSeq(seq, 1, i - 1) \o SubSeq(seq, i + 1, Len(seq)))

MedianOfList(seq) ==
    LET sorted == SortList(seq)
        T == Len(seq)
    IN  (sorted[((T - 1) \div 2) + 1] + sorted[(T \div 2) + 1]) \div 2

\* the pixels of row r of img in the columns from a to the last, as a list
RowPixelsFrom(img, r, a) == [c \in 1..(NCols(img) - a) |-> Pixel(img, r, a + c - 1)]

\* what the sample subtraction took off pixel (r, c)
SampleShift(r, c) ==
    Pixel(first_bias.img, r, c) - Pixel(bias_overscan_subtracted.img, r, c)

\* the state the subtraction cell leaves (neither name is bound again later)
SampleSubtracted ==
    /\ pc = "sample_trim"
    /\ "bias_overscan_subtracted" \in defined
    /\ ~bias_overscan_subtracted.img.nan

TrimKeeps(s, t) ==
    /\ t.nan = s.nan
    /\ NRows(t) = NRows(s)
    /\ NCols(t) = Cardinality({c \in 0..(NCols(s) - 1) : c < TrimCol})
    /\ ~s.nan => \A r \in RowReps(s, t) :
                 \A c \in {x \in ColReps(s, t) : x < NCols(t)} :
                     Pixel(t, r, c) = Pixel(s, r, c)

\* C10: the crop, of the sample image and in the loop, keeps exactly the columns
\* 0 to 2047 of the overscan-subtracted image with their pixel values and drops
\* every column from 2048 on: the columns 2048 to 2054 that the estimate did not
\* use as well as the columns 2055 to the end that it used.
C10_TrimKeepsExposedColumns ==
    [][ /\ (pc = "sample_trim" /\ "trimmed_bias" \in defined') =>
              TrimKeeps(bias_overscan_subtracted.img, trimmed_bias'.img)
        /\ (pc = "loop" /\ lpc = "trim") => TrimKeeps(ccd.img, ccd'.img) ]_vars

C10_Witness ==
    /\ pc = "loop" /\ lpc = "write"
    /\ "trimmed_bias" \in defined
    /\ ~bias_overscan_subtracted.img.nan
    /\ NCols(bias_overscan_subtracted.img) = RawCols
    /\ NCols(trimmed_bias.img) = TrimCol
    /\ NCols(ccd.img) = TrimCol
    /\ NCols(RawFile(file_name).img) > OscanCol
    /\ Pixel(bias_overscan_subtracted.img, 0, TrimCol)
          # Pixel(bias_overscan_subtracted.img, 0, OscanCol)

(***************************************************************************)
(* FITS sections and Python slices.                                        *)
(***************************************************************************)
Pixels(sel) == sel[1] \X sel[2]

NoPixels(sel) == sel[1] = {} \/ sel[2] = {}

\* two rectangles have the same pixels: both empty, or the same rows and columns
SamePixels(s, t) ==
    IF NoPixels(s) \/ NoPixels(t) THEN NoPixels(s) /\ NoPixels(t) ELSE s = t

DocPythonExposed == PySlice(0, 4128, 0, 2048)

LastExposed == 2047

\* C11: the FITS section [a:b,c:d] and the Python slice [c-1:d, a-1:b] it is
\* rewritten as take the same pixels, for every 1 <= a <= b, 1 <= c <= d inside
\* the image; [1:2048,1:4128] becomes [0:4128, 0:2048], and the last column
\* that 0:2048 takes is 2047.
C11_SectionIsSlice ==
    ipc = "converted" =>
        /\ pyslice = PySlice(section.y1 - 1, section.y2, section.x1 - 1, section.x2)
        /\ SamePixels(FitsSelect(shape, section), PySelect(shape, pyslice))
        /\ shape \in SmallShapes =>
              Pixels(FitsSelect(shape, section)) = Pixels(PySelect(shape, pyslice))
        /\ section = ExposedSec =>
              /\ pyslice = DocPythonExposed
              /\ LastExposed \in PySelect(shape, pyslice)[2]
              /\ \A c \in PySelect(shape, pyslice)[2] : c <= LastExposed

C11_Witness ==
    /\ ipc = "converted"
    /\ shape = LFCShape
    /\ section = ExposedSec
    /\ pyslice = DocPythonExposed

====
